---------------------------- MODULE Spec2Model ----------------------------
(***************************************************************************)
(* The log decompressor of runtime/LogDecompressor.cc: main() parses its   *)
(* arguments, opens the compressed log and runs the decode loop            *)
(*   while (!in.eof()) { limit test; peekEntryType; dispatch }             *)
(* over the byte stream.  The stream is an std::ifstream, modelled by its  *)
(* read position and its eofbit/failbit.  BufferUtils.h, BufferStuffer.h   *)
(* and Cycles.h are not part of the sources at hand: the stream layout and *)
(* the decoders they hold are modelled from the specification (sections    *)
(* 3, 4.1-4.5 and 6).                                                      *)
(***************************************************************************)
EXTENDS Integers, Sequences, FiniteSets, TLC

VARIABLES
    input,          \* the command line, the environment and the producer's records
    stream,         \* the bytes of the log file
    in,             \* std::ifstream in: [pos, eof, fail]
    pc,             \* position of main()
    status,         \* how the process ended ("running" until then)
    err,            \* the error that ended the run ("none" otherwise)
    msgsToPrint,    \* int msgsToPrint
    linesPrinted,   \* int linesPrinted
    lastFmtId,      \* uint32_t lastFmtId, 4 bytes little-endian
    lastTimestamp,  \* uint64_t lastTimestamp, 8 bytes little-endian
    out             \* what has been written to stdout by the decode loop

vars == <<input, stream, in, pc, status, err, msgsToPrint, linesPrinted,
          lastFmtId, lastTimestamp, out>>

---------------------------------------------------------------------------
(* Bounds of the model.                                                    *)

MaxItems == 3       \* records, checkpoints, paddings, junk bytes per stream
MaxLimit == 2       \* largest print limit tried

Timestamps == {1, 3}        \* absolute cycle counts the producer logs
ForeignStamps == {3}        \* the same, of records with a format id unknown here
CheckpointRates == {5}      \* cyclesPerSecond values of checkpoints
JunkBytes == {3, 4}         \* 3: tag bits 3; 4: tag bits 0 in a non-zero byte
Cuts == {0, 1, 2}           \* bytes missing at the end of the file

---------------------------------------------------------------------------
(* Fixed-width unsigned integers as little-endian byte sequences.          *)

Word(n, w) == [i \in 1..w |-> IF i = 1 THEN n ELSE 0]

ToNat(a) == a[1]

IsSmall(a) == \A i \in 2..Len(a) : a[i] = 0

Widen(mag, w) == SubSeq(mag \o [i \in 1..w |-> 0], 1, w)

\* a + b modulo 256^Len(a): digit i takes a carry when a lower digit
\* overflows and every digit between passes the carry on
CarryInto(a, b, i) ==
    \E j \in 1..(i - 1) :
        /\ a[j] + b[j] > 255
        /\ \A k \in (j + 1)..(i - 1) : a[k] + b[k] = 255

AddBytes(a, b) ==
    [i \in 1..Len(a) |-> (a[i] + b[i] + (IF CarryInto(a, b, i) THEN 1 ELSE 0)) % 256]

\* a - b modulo 256^Len(a): digit i lends when a lower digit borrows and
\* every digit between passes the borrow on
BorrowFrom(a, b, i) ==
    \E j \in 1..(i - 1) :
        /\ a[j] < b[j]
        /\ \A k \in (j + 1)..(i - 1) : a[k] = b[k]

SubBytes(a, b) ==
    [i \in 1..Len(a) |->
        (256 + a[i] - b[i] - (IF BorrowFrom(a, b, i) THEN 1 ELSE 0)) % 256]

\* a <= b as unsigned integers
LeBytes(a, b) ==
    \/ a = b
    \/ \E i \in 1..Len(a) :
          /\ a[i] < b[i]
          /\ \A k \in (i + 1)..Len(a) : a[k] = b[k]

---------------------------------------------------------------------------
(* The stream layout and its decoders (BufferUtils.h, BufferStuffer.h).    *)

NumFormats == 2

ArgBytes(f) == f

TagBits == 4

EntryTypeOf(b) ==
    CASE b % TagBits = 0 -> "INVALID"
      [] b % TagBits = 1 -> "LOG_MSG"
      [] b % TagBits = 2 -> "CHECKPOINT"
      [] OTHER -> "OTHER"

CheckpointBytes == 8

\* std::ifstream state
Good(s) == ~s.eof /\ ~s.fail

AtEnd(s) == s.pos >= Len(stream)

\* in.peek(): the next byte, or -1 (EOF); eofbit at the end, failbit when the
\* stream was not good already.
PeekValue(s) == IF Good(s) /\ ~AtEnd(s) THEN stream[s.pos + 1] ELSE -1

PeekState(s) ==
    IF ~Good(s) THEN [s EXCEPT !.fail = TRUE]
    ELSE IF AtEnd(s) THEN [s EXCEPT !.eof = TRUE]
    ELSE s

\* in.get(): consumes one byte
GetState(s) ==
    IF ~Good(s) THEN [s EXCEPT !.fail = TRUE]
    ELSE IF AtEnd(s) THEN [s EXCEPT !.eof = TRUE, !.fail = TRUE]
    ELSE [s EXCEPT !.pos = s.pos + 1]

peekEntryType(s) ==
    LET b == PeekValue(s)
    IN  [type |-> IF b = -1 THEN "INVALID" ELSE EntryTypeOf(b), in |-> PeekState(s)]

\* A variable-length integer: an indicator byte (2 * width + sign), then width
\* bytes of magnitude, least significant first.
DecodeVarint(p) ==
    IF p >= Len(stream) THEN [ok |-> FALSE, neg |-> FALSE, mag |-> <<>>, next |-> p]
    ELSE LET ind == stream[p + 1]
             n == ind \div 2
         IN  IF p + 1 + n > Len(stream)
             THEN [ok |-> FALSE, neg |-> FALSE, mag |-> <<>>, next |-> p]
             ELSE [ok |-> TRUE, neg |-> ind % 2 = 1,
                   mag |-> SubSeq(stream, p + 2, p + 1 + n), next |-> p + 1 + n]

ApplyDelta(last, v) ==
    IF v.neg THEN SubBytes(last, Widen(v.mag, Len(last)))
    ELSE AddBytes(last, Widen(v.mag, Len(last)))

Failed(s) == [s EXCEPT !.pos = Len(stream), !.eof = TRUE, !.fail = TRUE]

\* the two varints behind the tag byte, each read once
MetadataVarints(s) ==
    LET f == DecodeVarint(s.pos + 1)
    IN  <<f, DecodeVarint(f.next)>>

MetadataOf(s, lastF, lastT, f, t) ==
    IF AtEnd(s) \/ ~f.ok \/ ~t.ok
    THEN [ok |-> FALSE, fmtId |-> lastF, timestamp |-> lastT, in |-> Failed(s)]
    ELSE [ok |-> TRUE, fmtId |-> ApplyDelta(lastF, f),
          timestamp |-> ApplyDelta(lastT, t), in |-> [s EXCEPT !.pos = t.next]]

decompressMetadata(s, lastF, lastT) ==
    CHOOSE dm \in {MetadataOf(s, lastF, lastT, v[1], v[2]) : v \in {MetadataVarints(s)}} :
        TRUE

readCheckpoint(s) ==
    IF s.pos + 1 + CheckpointBytes > Len(stream)
    THEN [ok |-> FALSE, cyclesPerSecond |-> <<>>, in |-> Failed(s)]
    ELSE [ok |-> TRUE,
          cyclesPerSecond |-> SubSeq(stream, s.pos + 2, s.pos + 1 + CheckpointBytes),
          in |-> [s EXCEPT !.pos = s.pos + 1 + CheckpointBytes]]

InTable(fmtId) == IsSmall(fmtId) /\ ToNat(fmtId) < NumFormats

decompressAndPrintFn(f, s) ==
    IF s.pos + ArgBytes(f) > Len(stream)
    THEN [ok |-> FALSE, args |-> <<>>, in |-> Failed(s)]
    ELSE [ok |-> TRUE, args |-> SubSeq(stream, s.pos + 1, s.pos + ArgBytes(f)),
          in |-> [s EXCEPT !.pos = s.pos + ArgBytes(f)]]

---------------------------------------------------------------------------
(* The producer: the records it wrote, and the bytes they make.            *)

LogItem(f, t) == [kind |-> "log", a |-> f, b |-> t]
CheckpointItem(c) == [kind |-> "checkpoint", a |-> c, b |-> 0]
PadItem == [kind |-> "pad", a |-> 0, b |-> 0]
JunkItem(x) == [kind |-> "junk", a |-> x, b |-> 0]

Items ==
    {LogItem(f, t) : f \in 0..(NumFormats - 1), t \in Timestamps}
        \cup {LogItem(NumFormats, t) : t \in ForeignStamps}
        \cup {CheckpointItem(c) : c \in CheckpointRates}
        \cup {PadItem}

CleanSeqs(m) == UNION {[1..n -> Items] : n \in 0..m}

\* What the producer wrote, and at most one foreign byte after it: the decoder
\* reads nothing behind a byte of JunkBytes.
ItemSeqs ==
    CleanSeqs(MaxItems)
        \cup {Append(its, JunkItem(x)) : its \in CleanSeqs(MaxItems - 1), x \in JunkBytes}

EncodeVarint(d) ==
    IF d = 0 THEN <<0>> ELSE IF d > 0 THEN <<2, d>> ELSE <<3, 0 - d>>

ProducerArgs(f) == IF f = 0 THEN <<>> ELSE <<0>>

EncodeItem(it, lastF, lastT) ==
    CASE it.kind = "log" ->
            <<1>> \o EncodeVarint(it.a - lastF) \o EncodeVarint(it.b - lastT)
                  \o ProducerArgs(it.a)
      [] it.kind = "checkpoint" -> <<2>> \o Word(it.a, CheckpointBytes)
      [] it.kind = "pad" -> <<0>>
      [] OTHER -> <<it.a>>

RECURSIVE Encode(_, _, _)
Encode(its, lastF, lastT) ==
    IF its = <<>> THEN <<>>
    ELSE LET it == Head(its)
         IN  EncodeItem(it, lastF, lastT)
                \o (IF it.kind = "log" THEN Encode(Tail(its), it.a, it.b)
                    ELSE Encode(Tail(its), lastF, lastT))

FileBytes(its, cut) ==
    LET full == Encode(its, 0, 0)
    IN  SubSeq(full, 1, IF cut >= Len(full) THEN 0 ELSE Len(full) - cut)

\* argv[2] as std::stoi sees it
IntArg(n) == [kind |-> "int", val |-> n]
InvalidArg == [kind |-> "invalid", val |-> 0]
OutOfRangeArg == [kind |-> "outOfRange", val |-> 0]

Scenario(argc, count, allocOk, openOk, its, cut) ==
    [argc |-> argc, count |-> count, allocOk |-> allocOk, openOk |-> openOk,
     items |-> its, cut |-> cut]

NormalRuns ==
    {Scenario(3, IntArg(n), TRUE, TRUE, its, 0) : n \in 0..MaxLimit, its \in ItemSeqs}
        \cup {Scenario(2, InvalidArg, TRUE, TRUE, its, cut) : its \in ItemSeqs, cut \in Cuts}

OneRecord == <<LogItem(0, 1)>>

FailedStarts ==
    {Scenario(1, InvalidArg, TRUE, TRUE, OneRecord, 0),
     Scenario(3, InvalidArg, TRUE, TRUE, OneRecord, 0),
     Scenario(3, OutOfRangeArg, TRUE, TRUE, OneRecord, 0),
     Scenario(3, IntArg(-1), TRUE, TRUE, OneRecord, 0),
     Scenario(2, InvalidArg, FALSE, TRUE, OneRecord, 0),
     Scenario(3, IntArg(1), TRUE, FALSE, OneRecord, 0),
     Scenario(2, InvalidArg, TRUE, FALSE, OneRecord, 0)}

---------------------------------------------------------------------------
(* Output of the decode loop.                                              *)

\* The cycles-per-second a cycle count is converted with: the host's own
\* (Cycles::toSeconds(cycles)), or one read from a checkpoint.
HostCalibration == [src |-> "host", rate |-> <<>>]
CheckpointCalibration(cps) == [src |-> "checkpoint", rate |-> cps]
NoCalibration == [src |-> "none", rate |-> <<>>]

\* "%4d) +%10.2lf ns: ", the message body, "Found a checkpoint. ...", "Entry
\* type read in metadata does not match anything ...", "Decompression
\* Complete after printing %d log messages"
\* lines numbered from 1
PrefixOneBased(index, cycles) ==
    [kind |-> "prefix", n |-> index + 1, v |-> cycles, c |-> HostCalibration]

Prefix(index, cycles) ==
    [kind |-> "prefix", n |-> index, v |-> cycles, c |-> HostCalibration]
Body(f, args) == [kind |-> "body", n |-> f, v |-> args, c |-> NoCalibration]
CheckpointLine(cps) == [kind |-> "checkpoint", n |-> 0, v |-> cps, c |-> NoCalibration]
CorruptLine(tag) == [kind |-> "corrupt", n |-> tag, v |-> <<>>, c |-> NoCalibration]
Summary(count) == [kind |-> "summary", n |-> count, v |-> <<>>, c |-> NoCalibration]

---------------------------------------------------------------------------
(* main()                                                                  *)

Init ==
    \E sc \in NormalRuns \cup FailedStarts :
        /\ input = sc
        /\ stream = FileBytes(sc.items, sc.cut)
        /\ in = [pos |-> 0, eof |-> FALSE, fail |-> FALSE]
        /\ pc = "Start"
        /\ status = "running"
        /\ err = "none"
        /\ msgsToPrint = 0
        /\ linesPrinted = 0
        /\ lastFmtId = Word(0, 4)
        /\ lastTimestamp = Word(0, 8)
        /\ out = <<>>

Ends(how, why) ==
    /\ pc' = "Done"
    /\ status' = how
    /\ err' = why

BadCount ==
    /\ input.argc > 2
    /\ \/ input.count.kind \in {"invalid", "outOfRange"}
       \/ input.count.kind = "int" /\ input.count.val < 0

\* argc < 2: usage text, exit(1)
UsageExit ==
    /\ pc = "Start"
    /\ input.argc < 2
    /\ Ends("exit1", "UsageError")
    /\ UNCHANGED <<input, stream, in, msgsToPrint, linesPrinted, lastFmtId,
                   lastTimestamp, out>>

\* calloc fails, std::stoi throws, the count is negative, or the file does
\* not open: exit(-1)
StartFails ==
    /\ pc = "Start"
    /\ input.argc >= 2
    /\ \/ ~input.allocOk /\ Ends("exitNeg1", "AllocError")
       \/ input.allocOk /\ BadCount /\ Ends("exitNeg1", "UsageError")
       \/ input.allocOk /\ ~BadCount /\ ~input.openOk /\ Ends("exitNeg1", "IoError")
    /\ UNCHANGED <<input, stream, in, msgsToPrint, linesPrinted, lastFmtId,
                   lastTimestamp, out>>

Begin ==
    /\ pc = "Start"
    /\ input.argc >= 2 /\ input.allocOk /\ ~BadCount /\ input.openOk
    /\ msgsToPrint' = IF input.argc > 2 THEN input.count.val ELSE 0
    /\ pc' = "AwaitingRecord"
    /\ UNCHANGED <<input, stream, in, status, err, linesPrinted, lastFmtId,
                   lastTimestamp, out>>

\* the limit test with > for >=
LimitReachedOffByOne == msgsToPrint > 0 /\ linesPrinted > msgsToPrint

\* the limit test without its msgsToPrint > 0
LimitReachedZeroCounts == linesPrinted >= msgsToPrint

LimitReached == msgsToPrint > 0 /\ linesPrinted >= msgsToPrint

\* the summary prints the limit asked for, not the lines printed
FinishReportsLimit ==
    /\ out' = Append(out, Summary(msgsToPrint))
    /\ Ends("return0", "none")
    /\ UNCHANGED <<input, stream, in, msgsToPrint, linesPrinted, lastFmtId,
                   lastTimestamp>>

\* the loop is left: the summary is printed and main returns 0
Finish ==
    /\ out' = Append(out, Summary(linesPrinted))
    /\ Ends("return0", "none")
    /\ UNCHANGED <<input, stream, in, msgsToPrint, linesPrinted, lastFmtId,
                   lastTimestamp>>

LoopExit ==
    /\ pc = "AwaitingRecord"
    /\ in.eof
    /\ Finish

LimitBreak ==
    /\ pc = "AwaitingRecord"
    /\ ~in.eof
    /\ LimitReached
    /\ Finish

PeekNext ==
    /\ pc = "AwaitingRecord"
    /\ ~in.eof
    /\ ~LimitReached
    /\ LET r == peekEntryType(in)
       IN  /\ in' = r.in
           /\ pc' = r.type
    /\ UNCHANGED <<input, stream, status, err, msgsToPrint, linesPrinted,
                   lastFmtId, lastTimestamp, out>>

\* the absolute cycle count is printed in place of the difference
ElapsedAbsolute(timestamp) == timestamp

\* a timestamp before the last one counts as no time elapsed
ElapsedClamped(timestamp) ==
    IF LeBytes(lastTimestamp, timestamp) THEN SubBytes(timestamp, lastTimestamp)
    ELSE Word(0, 8)

Elapsed(timestamp) == SubBytes(timestamp, lastTimestamp)

\* a decoder cannot supply the bytes it was asked for: the run ends there
Fatal(why) == Ends("fatal", why)

LogMessageTruncatedMetadata ==
    /\ pc = "LOG_MSG"
    /\ \E dm \in {decompressMetadata(in, lastFmtId, lastTimestamp)} :
           /\ ~dm.ok
           /\ in' = dm.in
    /\ Fatal("MalformedVarintError")
    /\ UNCHANGED <<input, stream, msgsToPrint, linesPrinted, lastFmtId,
                   lastTimestamp, out>>

\* the record whose arguments are missing is printed and counted all the same
LogMessageTruncatedArgsCounted ==
    /\ pc = "LOG_MSG"
    /\ \E dm \in {decompressMetadata(in, lastFmtId, lastTimestamp)} :
        \E r \in {decompressAndPrintFn(ToNat(dm.fmtId), dm.in)} :
           /\ dm.ok
           /\ InTable(dm.fmtId)
           /\ ~r.ok
           /\ in' = r.in
           /\ out' = out \o <<[kind |-> "prefix", n |-> linesPrinted,
                                v |-> SubBytes(dm.timestamp, lastTimestamp),
                                c |-> HostCalibration],
                              Body(ToNat(dm.fmtId), r.args)>>
           /\ lastFmtId' = dm.fmtId
           /\ lastTimestamp' = dm.timestamp
           /\ linesPrinted' = linesPrinted + 1
    /\ pc' = "AwaitingRecord"
    /\ UNCHANGED <<input, stream, status, err, msgsToPrint>>

LogMessageTruncatedArgs ==
    /\ pc = "LOG_MSG"
    /\ \E dm \in {decompressMetadata(in, lastFmtId, lastTimestamp)} :
        \E r \in {decompressAndPrintFn(ToNat(dm.fmtId), dm.in)} :
           /\ dm.ok
           /\ InTable(dm.fmtId)
           /\ ~r.ok
           /\ in' = r.in
           /\ out' = Append(out, Prefix(linesPrinted, Elapsed(dm.timestamp)))
    /\ Fatal("TruncatedRecordError")
    /\ UNCHANGED <<input, stream, msgsToPrint, linesPrinted, lastFmtId,
                   lastTimestamp>>

\* the format id of the record is not stored
CommitTimestampOnly(dm) ==
    /\ lastFmtId' = lastFmtId
    /\ lastTimestamp' = dm.timestamp
    /\ linesPrinted' = linesPrinted + 1

Commit(dm) ==
    /\ lastFmtId' = dm.fmtId
    /\ lastTimestamp' = dm.timestamp
    /\ linesPrinted' = linesPrinted + 1

LogMessage ==
    /\ pc = "LOG_MSG"
    /\ \E dm \in {decompressMetadata(in, lastFmtId, lastTimestamp)} :
        \E r \in {decompressAndPrintFn(ToNat(dm.fmtId), dm.in)} :
           /\ dm.ok
           /\ InTable(dm.fmtId)
           /\ r.ok
           /\ in' = r.in
           /\ out' = out \o <<Prefix(linesPrinted, Elapsed(dm.timestamp)),
                              Body(ToNat(dm.fmtId), r.args)>>
           /\ Commit(dm)
    /\ pc' = "AwaitingRecord"
    /\ UNCHANGED <<input, stream, status, err, msgsToPrint>>

\* decompressAndPrintFnArray[dm.fmtId] past the end of the array: undefined
\* behaviour.  The process crashes, or whatever lies there is called as a
\* function: it reads some bytes and prints something, and the loop goes on.
LogMessageUnknownFormat ==
    /\ pc = "LOG_MSG"
    /\ \E dm \in {decompressMetadata(in, lastFmtId, lastTimestamp)} :
           /\ dm.ok
           /\ ~InTable(dm.fmtId)
           /\ \/ /\ in' = dm.in
                 /\ out' = Append(out, Prefix(linesPrinted, Elapsed(dm.timestamp)))
                 /\ Ends("crashed", "none")
                 /\ UNCHANGED <<linesPrinted, lastFmtId, lastTimestamp>>
              \/ \E f \in 0..(NumFormats - 1) :
                    \E r \in {decompressAndPrintFn(f, dm.in)} :
                        /\ r.ok
                        /\ in' = r.in
                        /\ out' = out \o <<Prefix(linesPrinted, Elapsed(dm.timestamp)),
                                           Body(-1, r.args)>>
                        /\ Commit(dm)
                        /\ pc' = "AwaitingRecord"
                        /\ UNCHANGED <<status, err>>
    /\ UNCHANGED <<input, stream, msgsToPrint>>

\* a checkpoint takes a message index
CheckpointRecordCounted ==
    /\ pc = "CHECKPOINT"
    /\ \E cp \in {readCheckpoint(in)} :
           /\ cp.ok
           /\ in' = cp.in
           /\ out' = Append(out, CheckpointLine(cp.cyclesPerSecond))
    /\ linesPrinted' = linesPrinted + 1
    /\ pc' = "AwaitingRecord"
    /\ UNCHANGED <<input, stream, status, err, msgsToPrint, lastFmtId, lastTimestamp>>

\* a checkpoint starts the deltas afresh
CheckpointRecordResets ==
    /\ pc = "CHECKPOINT"
    /\ \E cp \in {readCheckpoint(in)} :
           /\ cp.ok
           /\ in' = cp.in
           /\ out' = Append(out, CheckpointLine(cp.cyclesPerSecond))
    /\ lastFmtId' = Word(0, 4)
    /\ lastTimestamp' = Word(0, 8)
    /\ pc' = "AwaitingRecord"
    /\ UNCHANGED <<input, stream, status, err, msgsToPrint, linesPrinted>>

CheckpointRecord ==
    /\ pc = "CHECKPOINT"
    /\ \E cp \in {readCheckpoint(in)} :
           /\ cp.ok
           /\ in' = cp.in
           /\ out' = Append(out, CheckpointLine(cp.cyclesPerSecond))
    /\ pc' = "AwaitingRecord"
    /\ UNCHANGED <<input, stream, status, err, msgsToPrint, linesPrinted,
                   lastFmtId, lastTimestamp>>

CheckpointTruncated ==
    /\ pc = "CHECKPOINT"
    /\ \E cp \in {readCheckpoint(in)} :
           /\ ~cp.ok
           /\ in' = cp.in
    /\ Fatal("TruncatedRecordError")
    /\ UNCHANGED <<input, stream, msgsToPrint, linesPrinted, lastFmtId,
                   lastTimestamp, out>>

\* while (in.peek() == 0 && in.good()) in.get();
\* while (in.get() == 0 && in.good()); which takes the byte that ends the zeros
RECURSIVE SkipZerosAndOne(_)
SkipZerosAndOne(s) ==
    IF PeekValue(s) = 0 /\ Good(PeekState(s)) THEN SkipZerosAndOne(GetState(PeekState(s)))
    ELSE GetState(PeekState(s))

\* if (in.peek() == 0 && in.good()) in.get(); one zero byte for each Invalid tag
SkipOneZero(s) ==
    IF PeekValue(s) = 0 /\ Good(PeekState(s)) THEN GetState(PeekState(s))
    ELSE PeekState(s)

StreamStates == [pos : 0..Len(stream), eof : BOOLEAN, fail : BOOLEAN]

\* the loop, from the stream state s on
SkipLoop[s \in StreamStates] ==
    IF PeekValue(s) = 0 /\ Good(PeekState(s)) THEN SkipLoop[GetState(PeekState(s))]
    ELSE PeekState(s)

SkipZeros(s) == SkipLoop[s]

\* the strict reading: zeros that run to the end of the stream are an error
SkipPaddingStrict ==
    /\ pc = "INVALID"
    /\ in' = SkipZeros(in)
    /\ IF SkipZeros(in).eof
       THEN Ends("exitNeg1", "CorruptStreamError")
       ELSE pc' = "AwaitingRecord" /\ UNCHANGED <<status, err>>
    /\ UNCHANGED <<input, stream, msgsToPrint, linesPrinted, lastFmtId,
                   lastTimestamp, out>>

SkipPadding ==
    /\ pc = "INVALID"
    /\ in' = SkipZeros(in)
    /\ pc' = "AwaitingRecord"
    /\ UNCHANGED <<input, stream, status, err, msgsToPrint, linesPrinted,
                   lastFmtId, lastTimestamp, out>>

\* no branch matches: the message names the tag, exit(-1)
UnknownEntryType ==
    /\ pc = "OTHER"
    /\ out' = Append(out, CorruptLine(stream[in.pos + 1] % TagBits))
    /\ Ends("exitNeg1", "CorruptStreamError")
    /\ UNCHANGED <<input, stream, in, msgsToPrint, linesPrinted, lastFmtId,
                   lastTimestamp>>

Next ==
    \/ UsageExit
    \/ StartFails
    \/ Begin
    \/ LoopExit
    \/ LimitBreak
    \/ PeekNext
    \/ LogMessage
    \/ LogMessageTruncatedMetadata
    \/ LogMessageTruncatedArgs
    \/ LogMessageUnknownFormat
    \/ CheckpointRecord
    \/ CheckpointTruncated
    \/ SkipPadding
    \/ UnknownEntryType

Spec == Init /\ [][Next]_vars

\* the process runs until it ends
FairSpec == Spec /\ WF_vars(Next)

---------------------------------------------------------------------------
(* What the properties below speak of.                                     *)

\* the decode loop was entered
Decoding == pc # "Start" /\ err \notin {"UsageError", "AllocError", "IoError"}

Ended == pc = "Done"

EndedNormally == pc = "Done" /\ status = "return0"

IsLog(it) == it.kind = "log"

LogsIn(its) == SelectSeq(its, IsLog)

NumLogs == Len(LogsIn(input.items))

\* complete records with format ids of the table, checkpoints and zero
\* padding between them, nothing missing
ValidStream ==
    /\ input.cut = 0
    /\ \A i \in DOMAIN input.items :
          /\ input.items[i].kind \in {"log", "checkpoint", "pad"}
          /\ IsLog(input.items[i]) => input.items[i].a < NumFormats

\* position in input.items of the k-th log-message record
KthLog(k) ==
    CHOOSE j \in DOMAIN input.items :
        IsLog(input.items[j]) /\ Len(LogsIn(SubSeq(input.items, 1, j))) = k

\* file offset at which the j-th item ends, and the k-th log-message record
EndOfItem(j) == Len(Encode(SubSeq(input.items, 1, j), 0, 0))

EndOfRecord(k) ==
    IF k < 1 THEN 0
    ELSE IF k > NumLogs THEN EndOfItem(Len(input.items))
    ELSE EndOfItem(KthLog(k))

\* message lines: a prefix and the body the format's printer wrote after it
MessageLineAt(i) == i > 1 /\ out[i].kind = "body" /\ out[i - 1].kind = "prefix"

MessageLines == Cardinality({i \in DOMAIN out : MessageLineAt(i)})

\* prefixes no body followed
Fragments ==
    Cardinality({i \in DOMAIN out :
        out[i].kind = "prefix" /\ (i = Len(out) \/ out[i + 1].kind # "body")})

Reported(count) == out # <<>> /\ out[Len(out)] = Summary(count)

---------------------------------------------------------------------------

C1Case == Decoding /\ msgsToPrint > 0 /\ ValidStream /\ NumLogs >= msgsToPrint

(* C1: with a print limit k > 0 and a valid stream of at least k           *)
(* log-message records, the loop never reads past the end of record k, and *)
(* it ends normally having emitted exactly k message lines, the cursor at  *)
(* the end of record k.                                                    *)
C1_PrintLimitStopsAfterRecordK ==
    /\ [](C1Case => in.pos <= EndOfRecord(msgsToPrint))
    /\ C1Case ~> (/\ EndedNormally
                  /\ MessageLines = msgsToPrint
                  /\ Fragments = 0
                  /\ Reported(msgsToPrint)
                  /\ in.pos = EndOfRecord(msgsToPrint))

C1_Witness ==
    /\ C1Case
    /\ EndedNormally
    /\ msgsToPrint = 2
    /\ NumLogs = 3
    /\ MessageLines = 2
    /\ in.pos = EndOfRecord(2)
    /\ in.pos < Len(stream)

---------------------------------------------------------------------------

Count(kind) == Cardinality({i \in DOMAIN out : out[i].kind = kind})

C2Case == Decoding /\ msgsToPrint = 0 /\ ValidStream

(* C2: without a print limit, a valid stream of N log-message records      *)
(* (checkpoints and zero padding between them or not) is decoded to        *)
(* exactly N message lines, no record is decoded at the end of the stream, *)
(* and the run ends normally reporting N.                                  *)
C2_NoLimitDecodesEveryRecord ==
    C2Case =>
        /\ linesPrinted <= NumLogs
        /\ Count("prefix") <= NumLogs
        /\ Ended =>
              /\ EndedNormally
              /\ MessageLines = NumLogs
              /\ Count("prefix") = NumLogs
              /\ linesPrinted = NumLogs
              /\ Reported(NumLogs)

C2_Witness ==
    /\ C2Case
    /\ EndedNormally
    /\ in.eof
    /\ NumLogs = 1
    /\ \E i \in DOMAIN input.items : input.items[i].kind = "checkpoint"
    /\ input.items[1].kind = "pad"
    /\ MessageLines = 1

---------------------------------------------------------------------------
(* C3: the decode loop terminates on every finite input: it always         *)
(* reaches Done, by a normal end or by a fatal error.                      *)
C3_DecodeLoopTerminates == <>Ended

---------------------------------------------------------------------------

UnrecognizedAfterPadding ==
    /\ pc = "INVALID"
    /\ ~AtEnd(SkipZeros(in))
    /\ EntryTypeOf(stream[SkipZeros(in).pos + 1]) \notin {"LOG_MSG", "CHECKPOINT"}

(* C4: when an Invalid tag was seen and the byte behind the zero bytes is  *)
(* no tag of a record either (the stream not being exhausted), decoding    *)
(* ends with a fatal corrupt-stream error.                                 *)
C4_UnrecognizedByteAfterPaddingIsFatal ==
    UnrecognizedAfterPadding ~> (Ended /\ err = "CorruptStreamError")

---------------------------------------------------------------------------
(* C5: when the peeked tag is neither LogMessage, Checkpoint nor Invalid,  *)
(* the run ends with a fatal corrupt-stream error and the number of        *)
(* message lines printed so far has been reported.                         *)
C5_CorruptTagReportsCount ==
    (Ended /\ err = "CorruptStreamError") =>
        /\ status # "return0"
        /\ \E i \in DOMAIN out : out[i] = Summary(linesPrinted)

---------------------------------------------------------------------------

LogsBefore(j) == Len(LogsIn(SubSeq(input.items, 1, j - 1)))

FirstUnknownFormatAt(j) ==
    /\ IsLog(input.items[j])
    /\ input.items[j].a >= NumFormats
    /\ EndOfItem(j) <= Len(stream)
    /\ \A i \in 1..(j - 1) :
          /\ input.items[i].kind # "junk"
          /\ IsLog(input.items[i]) => input.items[i].a < NumFormats
    /\ msgsToPrint = 0 \/ msgsToPrint > LogsBefore(j)

(* C6: when record k+1 is complete and decodes to a format id without an   *)
(* entry in the dispatch table, the run ends with a fatal unknown-format   *)
(* error, the output holds the k message lines of the records before it    *)
(* and no prefix of record k+1, and the count reported is k.               *)
C6_UnknownFormatIdIsFatal ==
    \A j \in DOMAIN input.items :
        (Decoding /\ Ended /\ FirstUnknownFormatAt(j)) =>
            /\ err = "UnknownFormatIdError"
            /\ MessageLines = LogsBefore(j)
            /\ Count("prefix") = LogsBefore(j)
            /\ \E i \in DOMAIN out : out[i] = Summary(LogsBefore(j))

---------------------------------------------------------------------------

StartOfItem(j) == EndOfItem(j - 1)

MetadataEnd(j) == EndOfItem(j) - Len(ProducerArgs(input.items[j].a))

CutShortAt(j) ==
    /\ IsLog(input.items[j])
    /\ StartOfItem(j) = in.pos
    /\ StartOfItem(j) < Len(stream)
    /\ \/ MetadataEnd(j) > Len(stream)
       \/ EndOfItem(j) > Len(stream) /\ input.items[j].a < NumFormats

CutShortHere == pc = "LOG_MSG" /\ \E j \in DOMAIN input.items : CutShortAt(j)

---------------------------------------------------------------------------

IsNoCheckpoint(it) == it.kind # "checkpoint"

WithoutCheckpoints(its) == SelectSeq(its, IsNoCheckpoint)

ExpectedCount(its) ==
    IF msgsToPrint > 0 /\ msgsToPrint < Len(LogsIn(its)) THEN msgsToPrint
    ELSE Len(LogsIn(its))

PrefixesBefore(i) == Cardinality({j \in 1..(i - 1) : out[j].kind = "prefix"})

IndicesRunFromZero ==
    \A i \in DOMAIN out : out[i].kind = "prefix" => out[i].n = PrefixesBefore(i)

(* C8: the step that decodes a checkpoint adds no message line and leaves  *)
(* linesPrinted as it was; and for a valid stream the count at the end and *)
(* the indices of the message lines are those of the stream without its    *)
(* checkpoints: min(limit, number of log-message records) and 0, 1, 2, ... *)
C8_CheckpointsAreNotCounted ==
    /\ [][pc = "CHECKPOINT" =>
             linesPrinted' = linesPrinted /\ MessageLines' = MessageLines]_vars
    /\ []((Decoding /\ ValidStream) =>
             /\ IndicesRunFromZero
             /\ Ended => /\ linesPrinted = ExpectedCount(WithoutCheckpoints(input.items))
                         /\ Reported(ExpectedCount(WithoutCheckpoints(input.items))))

C8_Witness ==
    /\ Decoding /\ ValidStream
    /\ EndedNormally
    /\ Len(input.items) = 3
    /\ input.items[2].kind = "checkpoint"
    /\ linesPrinted = 2
    /\ Count("checkpoint") = 1

---------------------------------------------------------------------------

LatestCheckpointBefore(i, j) ==
    /\ j < i
    /\ out[j].kind = "checkpoint"
    /\ \A k \in (j + 1)..(i - 1) : out[k].kind # "checkpoint"

(* C9: the elapsed time of every message line behind a checkpoint is       *)
(* computed with the cyclesPerSecond of the latest checkpoint before it.   *)
C9_ElapsedUsesLatestCheckpoint ==
    \A i \in DOMAIN out : \A j \in DOMAIN out :
        (out[i].kind = "prefix" /\ LatestCheckpointBefore(i, j)) =>
            out[i].c = CheckpointCalibration(out[j].v)

---------------------------------------------------------------------------

LastLog == LogsIn(input.items)[NumLogs]

(* C10: the step that decodes a checkpoint leaves lastFmtId and            *)
(* lastTimestamp as they were; so at the end of a valid stream decoded     *)
(* without a limit they are the format id and the timestamp of the last    *)
(* log-message record, checkpoints between the records or not.             *)
C10_CheckpointKeepsDeltaState ==
    /\ [][pc = "CHECKPOINT" =>
             lastFmtId' = lastFmtId /\ lastTimestamp' = lastTimestamp]_vars
    /\ []((C2Case /\ Ended /\ NumLogs > 0) =>
             /\ lastFmtId = Word(LastLog.a, 4)
             /\ lastTimestamp = Word(LastLog.b, 8))

C10_Witness ==
    /\ pc = "AwaitingRecord"
    /\ out # <<>>
    /\ out[Len(out)].kind = "checkpoint"
    /\ linesPrinted = 1
    /\ lastFmtId = Word(1, 4)
    /\ lastTimestamp = Word(3, 8)

---------------------------------------------------------------------------

EmptySource == Decoding /\ stream = <<>>

(* C11: decoding an empty byte source ends, and ends normally: no error,   *)
(* no message line and no fragment of one emitted, and the count reported  *)
(* is 0 (whatever the print limit).                                        *)
C11_EmptySourceEndsNormally ==
    /\ EmptySource ~> Ended
    /\ []((EmptySource /\ Ended) =>
             /\ EndedNormally
             /\ err = "none"
             /\ linesPrinted = 0
             /\ out = <<Summary(0)>>)

C11_Witness ==
    /\ EmptySource
    /\ input.items = <<>>
    /\ EndedNormally
    /\ msgsToPrint = 2
    /\ in.eof
    /\ out = <<Summary(0)>>

---------------------------------------------------------------------------

AllZeroSource ==
    /\ Decoding
    /\ stream # <<>>
    /\ \A i \in DOMAIN stream : stream[i] = 0

(* C12: a stream of zero bytes only, of whatever length, is decoded to the *)
(* same outcome in every run: the run ends, normally, every byte consumed, *)
(* without a message line and with the count 0 reported.                   *)
C12_AllZeroStreamEndsWithCountZero ==
    /\ AllZeroSource ~> Ended
    /\ []((AllZeroSource /\ Ended) =>
             /\ status = "return0"
             /\ err = "none"
             /\ in.pos = Len(stream)
             /\ MessageLines = 0
             /\ Count("prefix") = 0
             /\ Reported(0))

C12_Witness ==
    /\ AllZeroSource
    /\ Len(stream) = 3
    /\ Ended
    /\ status = "return0"
    /\ in.pos = 3
    /\ in.eof
    /\ Reported(0)

---------------------------------------------------------------------------

\* the command line is at fault: no file named, a count std::stoi rejects or
\* a negative one, a file that does not open
UsageErrorInput ==
    \/ input.argc < 2
    \/ input.allocOk /\ (BadCount \/ ~input.openOk)

(* C13: every usage error (no file argument, a count that does not parse,  *)
(* is out of range or negative, a file that does not open) ends the        *)
(* process with exit code 1, before any record is decoded.                 *)
C13_UsageErrorsExitWithCode1 ==
    (UsageErrorInput /\ pc # "Start") =>
        /\ Ended
        /\ status = "exit1"
        /\ in.pos = 0
        /\ linesPrinted = 0
        /\ out = <<>>

---------------------------------------------------------------------------

IsPrefix(o) == o.kind = "prefix"

\* the prefixes of the message lines, in the order they were printed
Prefixes == SelectSeq(out, IsPrefix)

Logs == LogsIn(input.items)

MonotoneTimestamps == \A k \in 1..(NumLogs - 1) : Logs[k].b <= Logs[k + 1].b

\* the elapsed cycle counts of the lines 2..n, added up
RECURSIVE SumOfElapsed(_, _)
SumOfElapsed(ps, n) ==
    IF n < 2 THEN 0 ELSE ToNat(ps[n].v) + SumOfElapsed(ps, n - 1)

C14Case == Decoding /\ ValidStream /\ MonotoneTimestamps

(* C14: for log-message records with timestamps t_1 <= ... <= t_N, the    *)
(* elapsed cycle count of record 1 is t_1 (taken from 0), and after n      *)
(* records the elapsed cycle counts of records 2..n add up to t_n - t_1.   *)
C14_ElapsedCyclesTelescope ==
    C14Case =>
        LET n == Len(Prefixes)
        IN  /\ n <= NumLogs
            /\ \A k \in 1..n : IsSmall(Prefixes[k].v)
            /\ n >= 1 =>
                  /\ Prefixes[1].v = Word(Logs[1].b, 8)
                  /\ SumOfElapsed(Prefixes, n) = Logs[n].b - Logs[1].b

C14_Witness ==
    /\ C14Case
    /\ Ended
    /\ Len(Prefixes) = 3
    /\ Logs[1].b = 1
    /\ Logs[2].b = 3
    /\ Logs[3].b = 3
    /\ SumOfElapsed(Prefixes, 3) = 2

---------------------------------------------------------------------------

MessageLinesBefore(i) == Cardinality({j \in 1..(i - 1) : MessageLineAt(j)})

(* C15: the index a message line carries is the number of message lines  *)
(* emitted before it (0, 1, 2, ... in the order of emission), and when the *)
(* loop is left, at the end of the stream or at the print limit, the count *)
(* reported is the number of message lines emitted.                        *)
C15_IndicesAndReportedCount ==
    Decoding =>
        /\ \A i \in DOMAIN out :
              MessageLineAt(i) => out[i - 1].n = MessageLinesBefore(i)
        /\ (Ended /\ status = "return0") =>
              /\ Reported(MessageLines)
              /\ linesPrinted = MessageLines
              /\ Count("summary") = 1

C15_Witness ==
    /\ Decoding
    /\ EndedNormally
    /\ ~in.eof
    /\ msgsToPrint = 2
    /\ MessageLineAt(2) /\ out[1].n = 0
    /\ \E i \in DOMAIN out : MessageLineAt(i) /\ out[i - 1].n = 1
    /\ Reported(2)

---------------------------------------------------------------------------

\* an iteration of the LogMessage branch that runs to its end
CommitStep == pc = "LOG_MSG" /\ pc' = "AwaitingRecord"

(* C16: lastFmtId and lastTimestamp are 0 until the first record is        *)
(* committed and change in no step but the one that completes a            *)
(* LogMessage iteration; in that step the metadata was decoded, a function *)
(* of the dispatch table consumed its argument bytes, the elapsed cycle    *)
(* count printed was taken from the lastTimestamp before the step, and     *)
(* both become exactly the decoded absolute format id and timestamp (of a  *)
(* valid stream: those of the record just printed).                        *)
C16_DeltaStateChangesOnlyAtCommit ==
    /\ [](linesPrinted = 0 => (lastFmtId = Word(0, 4) /\ lastTimestamp = Word(0, 8)))
    /\ [][(lastFmtId' # lastFmtId \/ lastTimestamp' # lastTimestamp) => CommitStep]_vars
    /\ [][CommitStep =>
            LET dm == decompressMetadata(in, lastFmtId, lastTimestamp)
            IN  /\ dm.ok
                /\ lastFmtId' = dm.fmtId
                /\ lastTimestamp' = dm.timestamp
                /\ linesPrinted' = linesPrinted + 1
                /\ \E f \in 0..(NumFormats - 1) :
                      /\ InTable(dm.fmtId) => f = ToNat(dm.fmtId)
                      /\ in'.pos = dm.in.pos + ArgBytes(f)
                /\ Len(out') = Len(out) + 2
                /\ out'[Len(out) + 1].kind = "prefix"
                /\ out'[Len(out) + 1].v = SubBytes(dm.timestamp, lastTimestamp)
                /\ out'[Len(out) + 2].kind = "body"]_vars
    /\ []((Decoding /\ ValidStream /\ linesPrinted > 0) =>
             /\ lastFmtId = Word(Logs[linesPrinted].a, 4)
             /\ lastTimestamp = Word(Logs[linesPrinted].b, 8))

C16_Witness ==
    /\ Decoding /\ ValidStream
    /\ pc = "AwaitingRecord"
    /\ linesPrinted = 2
    /\ Logs[1] = LogItem(0, 1)
    /\ Logs[2] = LogItem(1, 3)
    /\ lastFmtId = Word(1, 4)
    /\ lastTimestamp = Word(3, 8)
    /\ out[Len(out)].kind = "body"
    /\ out[Len(out) - 1] = Prefix(1, Word(2, 8))

---------------------------------------------------------------------------

IsNoPad(it) == it.kind # "pad"

\* the records of the stream, the zero padding between them left out
Unpadded == LogsIn(SelectSeq(input.items, IsNoPad))

IsLinePart(o) == o.kind \in {"prefix", "body"}

\* the message line of the k-th record of its
ExpectedLine(its, k) ==
    <<[kind |-> "prefix", n |-> k - 1,
       v |-> SubBytes(Word(its[k].b, 8), Word(IF k = 1 THEN 0 ELSE its[k - 1].b, 8)),
       c |-> HostCalibration],
      [kind |-> "body", n |-> its[k].a, v |-> ProducerArgs(its[k].a),
       c |-> NoCalibration]>>

RECURSIVE ExpectedLines(_, _)
ExpectedLines(its, n) ==
    IF n = 0 THEN <<>> ELSE ExpectedLines(its, n - 1) \o ExpectedLine(its, n)

(* C17: the step of the Invalid branch consumes zero bytes only, stops at  *)
(* the first non-zero byte or at the end of the stream, emits nothing and  *)
(* leaves linesPrinted, lastFmtId and lastTimestamp as they were; and the  *)
(* message lines of a valid stream are those of its records with the       *)
(* padding left out.                                                       *)
C17_PaddingSkipConsumesOnlyZeros ==
    /\ [][pc = "INVALID" =>
            /\ pc' = "AwaitingRecord"
            /\ in'.pos >= in.pos
            /\ \A i \in (in.pos + 1)..(in'.pos) : stream[i] = 0
            /\ in'.pos = Len(stream) \/ stream[in'.pos + 1] # 0
            /\ out' = out
            /\ linesPrinted' = linesPrinted
            /\ lastFmtId' = lastFmtId
            /\ lastTimestamp' = lastTimestamp]_vars
    /\ []((Decoding /\ ValidStream) =>
             /\ linesPrinted <= Len(Unpadded)
             /\ SelectSeq(out, IsLinePart) = ExpectedLines(Unpadded, linesPrinted)
             /\ Ended => linesPrinted = ExpectedCount(Unpadded))

C17_Witness ==
    /\ Decoding /\ ValidStream
    /\ Len(input.items) = 3
    /\ input.items[1].kind = "log"
    /\ input.items[2].kind = "pad"
    /\ input.items[3].kind = "log"
    /\ pc = "AwaitingRecord"
    /\ in.pos = EndOfItem(2)
    /\ stream[in.pos] = 0
    /\ ~in.eof
    /\ linesPrinted = 1
    /\ Len(out) = 2

---------------------------------------------------------------------------

\* "0" given as the number of messages to print
ExplicitZero ==
    /\ input.argc > 2
    /\ input.count = IntArg(0)
    /\ input.allocOk
    /\ input.openOk

(* C18: a print limit given as 0 is accepted and is no limit, as when the  *)
(* argument is left out: msgsToPrint is 0, the loop is left only at the    *)
(* end of the stream, and a valid stream is decoded to its last record;    *)
(* and with msgsToPrint > 0, linesPrinted <= msgsToPrint in every state.   *)
C18_ZeroLimitIsNoLimit ==
    /\ []((ExplicitZero /\ pc # "Start") =>
             /\ Decoding
             /\ status \notin {"exit1", "exitNeg1"} \/ err = "CorruptStreamError"
             /\ msgsToPrint = 0
             /\ (Ended /\ ValidStream) =>
                   /\ EndedNormally
                   /\ in.eof
                   /\ linesPrinted = NumLogs)
    /\ [][(msgsToPrint = 0 /\ pc = "AwaitingRecord" /\ pc' = "Done") => in.eof]_vars
    /\ [](msgsToPrint > 0 => linesPrinted <= msgsToPrint)

C18_Witness ==
    /\ ExplicitZero
    /\ ValidStream
    /\ EndedNormally
    /\ msgsToPrint = 0
    /\ in.eof
    /\ linesPrinted = 3
    /\ Reported(3)

---------------------------------------------------------------------------

\* (t - last) mod 2^64 for cycle counts less than 256 apart, in bytes
WrappedDifference(t, last) ==
    IF t >= last THEN <<t - last, 0, 0, 0, 0, 0, 0, 0>>
    ELSE <<256 - (last - t), 255, 255, 255, 255, 255, 255, 255>>

TimestampBefore(k) == IF k = 1 THEN 0 ELSE Logs[k - 1].b

(* C19: the elapsed cycle count printed for a record is the unsigned       *)
(* 64-bit difference (timestamp - lastTimestamp) mod 2^64: for a record    *)
(* whose timestamp is smaller than that of the record before it, it is     *)
(* the wrapped value 2^64 - (lastTimestamp - timestamp), never a negative  *)
(* one.                                                                    *)
C19_ElapsedWrapsModulo64Bits ==
    (Decoding /\ ValidStream) =>
        \A k \in 1..Len(Prefixes) :
            /\ k <= NumLogs
            /\ Len(Prefixes[k].v) = 8
            /\ \A i \in 1..8 : Prefixes[k].v[i] \in 0..255
            /\ Prefixes[k].v = WrappedDifference(Logs[k].b, TimestampBefore(k))

C19_Witness ==
    /\ Decoding /\ ValidStream
    /\ Len(Prefixes) >= 2
    /\ Logs[1].b = 3
    /\ Logs[2].b = 1
    /\ Prefixes[2].v = <<254, 255, 255, 255, 255, 255, 255, 255>>
    /\ lastTimestamp = Word(1, 8)

=============================================================================
